---- MODULE Spec2Model ----
(***************************************************************************)
(* Model of click.testing: CliRunner.isolation (a scoped override of the   *)
(* process-wide stdio handles, prompt hooks, forced width and environment) *)
(* and CliRunner.invoke (one call into an entry point, its termination     *)
(* classified into a Result).                                              *)
(*                                                                         *)
(* Python values are represented as follows.                               *)
(*   None                as the string "None" where the other values are   *)
(*                       strings, as NoneBytes where they are byte         *)
(*                       sequences, as width 0 for FORCED_WIDTH            *)
(*   str                 as a sequence of one-character strings            *)
(*   bytes               as a sequence of integers 0..255                  *)
(*   os.environ          as a function Keys -> value or None (None = the   *)
(*                       key is absent, which is what os.environ.get(key)  *)
(*                       returns for it)                                   *)
(*   a dict              as a function whose DOMAIN is its key set         *)
(*   an optional object  as a sequence of length 0 or 1                    *)
(***************************************************************************)
EXTENDS Integers, Sequences, FiniteSets, TLC

(* ------------------------------ bounds --------------------------------- *)
\* deepest nesting of open isolation sessions
MaxDepth == 2
\* writes made to the simulated streams by the bodies of the open sessions
MaxWrites == 2

(* ------------------------------ values --------------------------------- *)
None == "None"
NoneBytes == <<-1>>

Keys == {"K1", "K2"}
\* values of CliRunner(env=...) and of invoke(env=...) / isolation(env=...)
RunnerEnvValues == {"r"}
CallEnvValues == {"c"}

\* every dict over Keys with values in vals or None
EnvMappings(vals) == UNION {[D -> vals \cup {None}] : D \in SUBSET Keys}

\* sys.exit payloads: int, None, float, str
Payload(ty, n, s) == [ty |-> ty, n |-> n, s |-> s]
NonePayload == Payload("NoneType", 0, <<>>)
IntPayloads == {Payload("int", n, <<>>) : n \in {0, 2}}
FloatPayloads == {Payload("float", n, <<>>) : n \in {0, 2}}
StrPayloads == {Payload("str", 0, s) : s \in {<<>>, <<"m">>}}
Payloads == IntPayloads \cup {NonePayload} \cup FloatPayloads \cup StrPayloads

\* exception objects
NoException == [ty |-> "None", code |-> NonePayload]
SystemExitOf(p) == [ty |-> "SystemExit", code |-> p]
Failures == {[ty |-> "RuntimeError", code |-> NonePayload]}

\* how the entry point (or the body of a with-block) terminates
Termination(kind, value, exc) == [kind |-> kind, value |-> value, exc |-> exc]
NoTermination == Termination("none", None, NoException)
Terminations ==
    {Termination("return", v, NoException) : v \in {None, "rv"}}
    \cup {Termination("SystemExit", None, SystemExitOf(p)) : p \in Payloads}
    \cup {Termination("Exception", None, e) : e \in Failures}

(* --------------------------- text and bytes ---------------------------- *)
\* code points of the characters the model writes
Ord == ("o" :> 111) @@ ("e" :> 101) @@ ("m" :> 109) @@ ("\n" :> 10)
       @@ ("." :> 46) @@ ("0" :> 48) @@ ("2" :> 50) @@ ("\r" :> 13)
       @@ ("a" :> 97) @@ ("b" :> 98) @@ ("P" :> 80)

\* str.encode(charset) for the characters above (one byte each)
Encode(text) == [i \in 1..Len(text) |-> Ord[text[i]]]

\* the one character of the model outside ASCII: U+00E9
EAcute == "U+00E9"
Charsets == {"utf-8", "latin-1"}

\* c.encode(charset) of one character
EncodeChar(charset, c) ==
    IF c = EAcute
    THEN (IF charset = "utf-8" THEN <<195, 169>> ELSE <<233>>)
    ELSE <<Ord[c]>>

RECURSIVE EncodeWith(_, _)
\* str.encode(charset)
EncodeWith(charset, text) ==
    IF text = <<>> THEN <<>>
    ELSE EncodeChar(charset, Head(text)) \o EncodeWith(charset, Tail(text))

RECURSIVE DecodeWith(_, _)
\* the incremental decoder of a TextIOWrapper(encoding=charset), on bytes
\* that are text in that charset
DecodeWith(charset, bytes) ==
    IF bytes = <<>> THEN <<>>
    ELSE IF charset = "utf-8" /\ Len(bytes) >= 2 /\ bytes[1] = 195 /\ bytes[2] = 169
         THEN <<EAcute>> \o DecodeWith(charset, SubSeq(bytes, 3, Len(bytes)))
         ELSE IF charset = "latin-1" /\ bytes[1] = 233
              THEN <<EAcute>> \o DecodeWith(charset, Tail(bytes))
              ELSE <<CHOOSE c \in DOMAIN Ord : Ord[c] = bytes[1]>>
                   \o DecodeWith(charset, Tail(bytes))

\* what a caller passes as input: None, a str, bytes, or an open stream,
\* for which binary_reader is what _find_binary_reader(input) gives (the
\* bytes of the binary stream it finds, or None)
NoInput == [ty |-> "NoneType", text |-> <<>>, data |-> <<>>, binary_reader |-> NoneBytes]
StrInput(text) == [ty |-> "str", text |-> text, data |-> <<>>, binary_reader |-> NoneBytes]
BytesInput(data) == [ty |-> "bytes", text |-> <<>>, data |-> data, binary_reader |-> NoneBytes]
StreamInput(reader) == [ty |-> "stream", text |-> <<>>, data |-> <<>>, binary_reader |-> reader]

\* str(exit_code) of a sys.exit payload
Str(p) ==
    CASE p.ty = "str" -> p.s
      [] p.ty = "float" -> <<IF p.n = 0 THEN "0" ELSE "2", ".", "0">>
      [] p.ty = "int" -> <<IF p.n = 0 THEN "0" ELSE "2">>
      [] OTHER -> <<>>

\* Python's `exit_code != 0`
NotEqualZero(p) ==
    CASE p.ty = "int" -> p.n # 0
      [] p.ty = "float" -> p.n # 0
      [] OTHER -> TRUE

\* isinstance(exit_code, int)
IsInt(p) == p.ty = "int"

(* ------------------------------- state --------------------------------- *)
VARIABLES
    runner,     \* the CliRunner: its charset, env, echo_stdin and mix_stderr
    g,          \* the process-wide bindings the session overrides
    environ,    \* os.environ
    stack,      \* the open isolation sessions, innermost last
    last,       \* what the last step did and what it handed to its caller
    fs          \* the working directory, the directories made by mkdtemp,
                \* the open isolated_filesystem blocks (innermost last)

vars == <<runner, g, environ, stack, last, fs>>

\* formatting.FORCED_WIDTH = 80
ForcedWidth == 80

\* a stream object: the session that built it (0: the process's own) and its name
Handle(sid, name) == [sid |-> sid, name |-> name]
\* a hook function: the session whose closure it is (0: click's own)
Hook(sid, fn) == [sid |-> sid, fn |-> fn]

\* the bindings of a process no session has touched
OriginalGlobals ==
    [stdin |-> Handle(0, "<stdin>"),
     stdout |-> Handle(0, "<stdout>"),
     stderr |-> Handle(0, "<stderr>"),
     visible_prompt_func |-> Hook(0, "visible_input"),
     hidden_prompt_func |-> Hook(0, "hidden_input"),
     _getchar |-> Hook(0, "_getchar"),
     should_strip_ansi |-> Hook(0, "should_strip_ansi"),
     FORCED_WIDTH |-> 0]

\* CliRunner.__init__
CliRunner(charset, env, echo_stdin, mix_stderr) ==
    [charset |-> charset, env |-> env, echo_stdin |-> echo_stdin,
     mix_stderr |-> mix_stderr]

\* make_env with the runner's value kept on a key both mappings have
make_env_RunnerWins(self, overrides) ==
    [k \in DOMAIN self.env \cup DOMAIN overrides |->
        IF k \in DOMAIN self.env THEN self.env[k] ELSE overrides[k]]

\* CliRunner.make_env: dict(self.env) updated by the overrides
make_env(self, overrides) ==
    [k \in DOMAIN self.env \cup DOMAIN overrides |->
        IF k \in DOMAIN overrides THEN overrides[k] ELSE self.env[k]]

(* ------------------------- isolation: entering -------------------------- *)
\* the bindings isolation() installs (lines 199-261)
InstalledGlobals(sid, mix_stderr) ==
    [stdin |-> Handle(sid, "<stdin>"),
     stdout |-> Handle(sid, "<stdout>"),
     stderr |-> IF mix_stderr THEN Handle(sid, "<stdout>")
                ELSE Handle(sid, "<stderr>"),
     visible_prompt_func |-> Hook(sid, "visible_input"),
     hidden_prompt_func |-> Hook(sid, "hidden_input"),
     _getchar |-> Hook(sid, "_getchar"),
     should_strip_ansi |-> Hook(sid, "should_strip_ansi"),
     FORCED_WIDTH |-> ForcedWidth]

\* the loop of lines 265-273 over env.items()
ApplyEnv(os_environ, env) ==
    [k \in Keys |->
        IF k \in DOMAIN env
        THEN (IF env[k] = None THEN None ELSE env[k])
        ELSE os_environ[k]]

\* old_env as the loop of lines 265-266 leaves it
SnapshotEnv(os_environ, env) == [k \in DOMAIN env |-> os_environ[k]]

\* what a call gives: the value it returns, or the name of the exception
\* it raises
Returned(text) == [raises |-> None, value |-> text]
Raised(exc) == [raises |-> exc, value |-> <<>>]

\* an exception object of the class named
ExceptionOf(ty) == [ty |-> ty, code |-> NonePayload]

\* make_input_stream with an empty stream for a stream without binary reader
make_input_stream_AcceptsAnyStream(input, charset) ==
    CASE input.ty = "stream" ->
            IF input.binary_reader # NoneBytes
            THEN Returned(input.binary_reader)
            ELSE Returned(<<>>)
      [] input.ty = "NoneType" -> Returned(<<>>)
      [] input.ty = "bytes" -> Returned(input.data)
      [] OTHER -> Returned(EncodeWith(charset, input.text))

\* make_input_stream (lines 58-73): the bytes of the BytesIO (or of the
\* binary reader) it returns, or the exception it raises: TypeError for a
\* stream without binary reader, LookupError when str.encode does not know
\* the charset
make_input_stream(input, charset) ==
    CASE input.ty = "stream" ->
            IF input.binary_reader # NoneBytes
            THEN Returned(input.binary_reader)
            ELSE Raised("TypeError")
      [] input.ty = "NoneType" -> Returned(<<>>)
      [] input.ty = "bytes" -> Returned(input.data)
      [] OTHER -> IF charset \in Charsets
                  THEN Returned(EncodeWith(charset, input.text))
                  ELSE Raised("LookupError")

\* the generator's locals at its yield (line 274), plus what the session's
\* caller saw on entry (pre), what the session installed (inst), what the
\* body wrote (wrote_out, wrote_err) and, in the order they happened, the
\* writes to the output buffer's stream and the echoes of input (chrono),
\* kept for the properties
NewSession(sid, input, env) ==
    [env |-> env,
     input |-> input,
     decoded |-> <<>>,
     reads |-> 0,
     old_stdin |-> g.stdin,
     old_stdout |-> g.stdout,
     old_stderr |-> g.stderr,
     old_forced_width |-> g.FORCED_WIDTH,
     old_visible_prompt_func |-> g.visible_prompt_func,
     old_hidden_prompt_func |-> g.hidden_prompt_func,
     old__getchar_func |-> g._getchar,
     old_should_strip_ansi |-> g.should_strip_ansi,
     old_env |-> SnapshotEnv(environ, env),
     bytes_output |-> <<>>,
     bytes_error |-> IF runner.mix_stderr THEN NoneBytes ELSE <<>>,
     stdout_pending |-> <<>>,
     stderr_pending |-> <<>>,
     pre |-> [g |-> g, environ |-> environ],
     inst |-> [g |-> InstalledGlobals(sid, runner.mix_stderr),
               environ |-> ApplyEnv(environ, env)],
     wrote_out |-> <<>>,
     wrote_err |-> <<>>,
     wrote_all |-> <<>>,
     chrono |-> <<>>,
     inner |-> FALSE]

\* what a step hands to its caller (result: the Result returned; raised: the
\* exception propagated) and, when it closed a session, what that session
\* had noted for the properties
Closed(f) ==
    [pre |-> f.pre, wrote_out |-> f.wrote_out, wrote_err |-> f.wrote_err,
     wrote_all |-> f.wrote_all, chrono |-> f.chrono, inner |-> f.inner,
     overrode |-> f.inst.environ # f.pre.environ]

Event(op, term, catch, result, raised, closed) ==
    [op |-> op, term |-> term, catch_exceptions |-> catch, result |-> result,
     raised |-> raised, closed |-> closed, io |-> [fn |-> "none"]]

BodyEvent(op) == Event(op, NoTermination, TRUE, <<>>, <<>>, <<>>)

\* an attempt to enter a session: the arguments, and the globals and the
\* environment the caller had, kept for the properties
EnterEvent(input, env, raised) ==
    [Event("enter", NoTermination, TRUE, <<>>, raised, <<>>) EXCEPT
        !.io = [fn |-> "enter", input |-> input, env |-> env,
                pre |-> [g |-> g, environ |-> environ]]]

(* ------------------------ the simulated streams ------------------------- *)
IsOpen(stk, sid) == sid \in 1..Len(stk)

\* WrapperWrite with the one buffer for both streams whatever mix_stderr says
WrapperWrite_AllToStdout(stk, h, data) ==
    IF ~IsOpen(stk, h.sid) THEN stk
    ELSE [stk EXCEPT ![h.sid].stdout_pending = @ \o data]

\* _NamedTextIOWrapper.write (io.TextIOWrapper.write): the encoded text joins
\* the wrapper's pending bytes; a write to a stream of the process itself
\* (sid 0) leaves every session alone
WrapperWrite(stk, h, data) ==
    IF ~IsOpen(stk, h.sid) THEN stk
    ELSE IF h.name = "<stdout>"
         THEN [stk EXCEPT ![h.sid].stdout_pending = @ \o data]
         ELSE [stk EXCEPT ![h.sid].stderr_pending = @ \o data]

\* _NamedTextIOWrapper.flush (io.TextIOWrapper.flush): the pending bytes go to
\* the BytesIO the wrapper was built on (bytes_output or bytes_error)
WrapperFlush(stk, h) ==
    IF ~IsOpen(stk, h.sid) THEN stk
    ELSE IF h.name = "<stdout>"
         THEN [stk EXCEPT ![h.sid].bytes_output = @ \o stk[h.sid].stdout_pending,
                          ![h.sid].stdout_pending = <<>>]
         ELSE [stk EXCEPT ![h.sid].bytes_error = @ \o stk[h.sid].stderr_pending,
                          ![h.sid].stderr_pending = <<>>]

RECURSIVE Written(_)
\* the writes the bodies of the open sessions have made so far
Written(stk) ==
    IF stk = <<>> THEN 0
    ELSE Len(Head(stk).wrote_all) + Written(Tail(stk))

Top == stack[Len(stack)]

\* the entry point (or the with-block's body) runs sys.stdout.write("o")
WriteStdout ==
    /\ stack # <<>>
    /\ Written(stack) < MaxWrites
    /\ LET data == Encode(<<"o">>)
           n == Len(stack)
       IN stack' = [WrapperWrite(stack, g.stdout, data) EXCEPT
                       ![n].wrote_out = @ \o data,
                       ![n].wrote_all = @ \o data,
                       ![n].chrono = @ \o data]
    /\ last' = BodyEvent("run")
    /\ UNCHANGED <<runner, g, environ, fs>>

\* the entry point runs sys.stderr.write("e")
WriteStderr ==
    /\ stack # <<>>
    /\ Written(stack) < MaxWrites
    /\ LET data == Encode(<<"e">>)
           n == Len(stack)
       IN stack' = [WrapperWrite(stack, g.stderr, data) EXCEPT
                       ![n].wrote_err = @ \o data,
                       ![n].wrote_all = @ \o data,
                       ![n].chrono = IF runner.mix_stderr THEN @ \o data ELSE @]
    /\ last' = BodyEvent("run")
    /\ UNCHANGED <<runner, g, environ, fs>>

\* the entry point runs sys.stdout.flush()
FlushStdout ==
    /\ stack # <<>>
    /\ stack' = WrapperFlush(stack, g.stdout)
    /\ stack' # stack
    /\ last' = BodyEvent("run")
    /\ UNCHANGED <<runner, g, environ, fs>>

\* the entry point runs sys.stderr.flush()
FlushStderr ==
    /\ stack # <<>>
    /\ stack' = WrapperFlush(stack, g.stderr)
    /\ stack' # stack
    /\ last' = BodyEvent("run")
    /\ UNCHANGED <<runner, g, environ, fs>>

(* ------------------------- the simulated stdin -------------------------- *)
\* reads of the simulated stdin made by the bodies of the open sessions
MaxReads == 2

RECURSIVE Reads(_)
\* the reads the bodies of the open sessions have made so far
Reads(stk) ==
    IF stk = <<>> THEN 0 ELSE Head(stk).reads + Reads(Tail(stk))

\* the methods class EchoingStdin defines itself (lines 27-37); every other
\* attribute is the wrapped stream's own (__getattr__, lines 20-21)
EchoingMethods == {"read", "readline", "readlines", "__iter__"}

\* what a call of a read method of the BytesIO with its default argument
\* returns (rv) and what it leaves unread (rest): readline up to and with the
\* first b"\n"; read, read1, readlines and a completed iteration, everything
BytesIORead(method, data) ==
    IF method = "readline" /\ \E i \in 1..Len(data) : data[i] = 10
    THEN LET i == CHOOSE i \in 1..Len(data) :
                     /\ data[i] = 10
                     /\ \A j \in 1..(i - 1) : data[j] # 10
         IN [rv |-> SubSeq(data, 1, i), rest |-> SubSeq(data, i + 1, Len(data))]
    ELSE [rv |-> data, rest |-> <<>>]

\* what the call writes to the output buffer when the stream is wrapped in
\* an EchoingStdin (_echo, lines 23-25)
EchoOf(method, rv) ==
    IF runner.echo_stdin /\ method \in EchoingMethods THEN rv ELSE <<>>

\* a call of a read method on the object the stdin wrapper was built on
\* (sys.stdin.buffer): the BytesIO, or the EchoingStdin around it (line 204)
BufferCall(f, method) ==
    LET r == BytesIORead(method, f.input)
    IN [rv |-> r.rv,
        f |-> [f EXCEPT !.input = r.rest,
                        !.bytes_output = @ \o EchoOf(method, r.rv),
                        !.chrono = @ \o EchoOf(method, r.rv)]]

IsTerminator(c) == c \in {"\n", "\r"}

\* one line of text as a TextIOWrapper with universal newlines gives it:
\* the characters up to the first "\n", "\r\n" or "\r", and "\n" for it
TextReadline(text) ==
    IF \E i \in 1..Len(text) : IsTerminator(text[i])
    THEN LET i == CHOOSE i \in 1..Len(text) :
                     /\ IsTerminator(text[i])
                     /\ \A j \in 1..(i - 1) : ~IsTerminator(text[j])
             n == IF text[i] = "\r" /\ i < Len(text) /\ text[i + 1] = "\n"
                  THEN i + 1 ELSE i
         IN [line |-> SubSeq(text, 1, i - 1) \o <<"\n">>,
             rest |-> SubSeq(text, n + 1, Len(text))]
    ELSE [line |-> text, rest |-> <<>>]

\* io.TextIOWrapper.readline of the stdin wrapper (lines 206-208): when its
\* decoded characters hold no whole line it fetches a chunk with
\* buffer.read1, which takes all of an input this short
WrapperReadline(f) ==
    LET fetch == ~\E i \in 1..Len(f.decoded) : IsTerminator(f.decoded[i])
        b == IF fetch THEN BufferCall(f, "read1") ELSE [rv |-> <<>>, f |-> f]
        t == TextReadline(f.decoded \o DecodeWith(runner.charset, b.rv))
    IN [line |-> t.line,
        data |-> b.rv,
        f |-> [b.f EXCEPT !.decoded = t.rest, !.reads = @ + 1]]

RECURSIVE Rstrip(_)
\* str.rstrip("\r\n")
Rstrip(text) ==
    IF text # <<>> /\ IsTerminator(text[Len(text)])
    THEN Rstrip(SubSeq(text, 1, Len(text) - 1))
    ELSE text

\* `prompt or ""`
PromptText(prompt) == IF prompt = None THEN <<>> ELSE prompt

\* a read of the simulated stdin: the function, its argument, the text it
\* returned, the bytes the stream under the wrapper handed out for it, and
\* the session as it was before the call
ReadEvent(fn, prompt, value, data, before) ==
    [BodyEvent("read") EXCEPT
        !.io = [fn |-> fn, prompt |-> prompt, value |-> value, data |-> data,
                before |-> before]]

\* sys.stdout.write(text) by a hook, noted as a write of the running body
HookWrite(stk, text) ==
    LET data == EncodeWith(runner.charset, text)
        n == Len(stk)
    IN [WrapperWrite(stk, g.stdout, data) EXCEPT
           ![n].wrote_out = @ \o data,
           ![n].wrote_all = @ \o data,
           ![n].chrono = @ \o data]

\* the session whose closures the installed prompt hooks are
HookSession == g.visible_prompt_func.sid

\* visible_input with the value not written back
visible_input_NoEcho(prompt) ==
    LET stk1 == HookWrite(stack, PromptText(prompt))
        r == WrapperReadline(stk1[HookSession])
        val == Rstrip(r.line)
        stk2 == [stk1 EXCEPT ![HookSession] = r.f]
    IN [val |-> val, data |-> r.data,
        stk |-> WrapperFlush(HookWrite(stk2, <<"\n">>), g.stdout)]

\* visible_input (lines 228-233)
visible_input(prompt) ==
    LET stk1 == HookWrite(stack, PromptText(prompt))
        r == WrapperReadline(stk1[HookSession])
        val == Rstrip(r.line)
        stk2 == [stk1 EXCEPT ![HookSession] = r.f]
    IN [val |-> val, data |-> r.data,
        stk |-> WrapperFlush(HookWrite(stk2, val \o <<"\n">>), g.stdout)]

\* hidden_input with the value written after the prompt
hidden_input_Echoing(prompt) ==
    LET stk1 == WrapperFlush(HookWrite(stack, PromptText(prompt) \o <<"\n">>),
                             g.stdout)
        r == WrapperReadline(stk1[HookSession])
        stk2 == [stk1 EXCEPT ![HookSession] = r.f]
    IN [val |-> Rstrip(r.line), data |-> r.data,
        stk |-> WrapperFlush(HookWrite(stk2, Rstrip(r.line)), g.stdout)]

\* hidden_input (lines 235-238)
hidden_input(prompt) ==
    LET stk1 == WrapperFlush(HookWrite(stack, PromptText(prompt) \o <<"\n">>),
                             g.stdout)
        r == WrapperReadline(stk1[HookSession])
    IN [val |-> Rstrip(r.line), data |-> r.data,
        stk |-> [stk1 EXCEPT ![HookSession] = r.f]]

\* the entry point prompts through termui.visible_prompt_func
VisibleInput(prompt) ==
    /\ stack # <<>>
    /\ Reads(stack) < MaxReads
    /\ LET rv == visible_input(prompt)
       IN /\ stack' = rv.stk
          /\ last' = ReadEvent("visible_input", prompt, rv.val, rv.data,
                               stack[HookSession])
    /\ UNCHANGED <<runner, g, environ, fs>>

\* the entry point prompts through termui.hidden_prompt_func
HiddenInput(prompt) ==
    /\ stack # <<>>
    /\ Reads(stack) < MaxReads
    /\ LET rv == hidden_input(prompt)
       IN /\ stack' = rv.stk
          /\ last' = ReadEvent("hidden_input", prompt, rv.val, rv.data,
                               stack[HookSession])
    /\ UNCHANGED <<runner, g, environ, fs>>

\* the entry point runs sys.stdin.readline()
StdinReadline ==
    /\ stack # <<>>
    /\ Reads(stack) < MaxReads
    /\ LET sid == g.stdin.sid
           r == WrapperReadline(stack[sid])
       IN /\ stack' = [stack EXCEPT ![sid] = r.f]
          /\ last' = ReadEvent("sys.stdin.readline", None, r.line, r.data,
                               stack[sid])
    /\ UNCHANGED <<runner, g, environ, fs>>

\* the entry point calls a read method of the binary stream under stdin:
\* sys.stdin.buffer.read(), .readline(), .readlines(), or iterates over it
BufferRead(method) ==
    /\ stack # <<>>
    /\ Reads(stack) < MaxReads
    /\ LET sid == g.stdin.sid
           r == BufferCall(stack[sid], method)
       IN /\ stack' = [stack EXCEPT ![sid] = [r.f EXCEPT !.reads = @ + 1]]
          /\ last' = ReadEvent(method, None, <<>>, r.rv, stack[sid])
    /\ UNCHANGED <<runner, g, environ, fs>>

(* -------------------------- isolation: leaving -------------------------- *)
\* RestoreEnv with the keys that did not exist left as the session set them
RestoreEnv_KeepsNewKeys(os_environ, old_env) ==
    [k \in Keys |->
        IF k \in DOMAIN old_env /\ old_env[k] # None
        THEN old_env[k]
        ELSE os_environ[k]]

\* the loop of lines 276-283 over old_env.items()
RestoreEnv(os_environ, old_env) ==
    [k \in Keys |->
        IF k \in DOMAIN old_env
        THEN (IF old_env[k] = None THEN None ELSE old_env[k])
        ELSE os_environ[k]]

\* RestoreGlobals without line 291: the forced width stays as it is
RestoreGlobals_KeepsWidth(f) ==
    [stdin |-> f.old_stdin,
     stdout |-> f.old_stdout,
     stderr |-> f.old_stderr,
     visible_prompt_func |-> f.old_visible_prompt_func,
     hidden_prompt_func |-> f.old_hidden_prompt_func,
     _getchar |-> f.old__getchar_func,
     should_strip_ansi |-> f.old_should_strip_ansi,
     FORCED_WIDTH |-> g.FORCED_WIDTH]

\* RestoreGlobals that puts back the streams of the process (sys.__stdin__,
\* sys.__stdout__, sys.__stderr__) instead of the saved ones
RestoreGlobals_ToProcessStreams(f) ==
    [stdin |-> Handle(0, "<stdin>"),
     stdout |-> Handle(0, "<stdout>"),
     stderr |-> Handle(0, "<stderr>"),
     visible_prompt_func |-> f.old_visible_prompt_func,
     hidden_prompt_func |-> f.old_hidden_prompt_func,
     _getchar |-> f.old__getchar_func,
     should_strip_ansi |-> f.old_should_strip_ansi,
     FORCED_WIDTH |-> f.old_forced_width]

\* lines 284-291
RestoreGlobals(f) ==
    [stdin |-> f.old_stdin,
     stdout |-> f.old_stdout,
     stderr |-> f.old_stderr,
     visible_prompt_func |-> f.old_visible_prompt_func,
     hidden_prompt_func |-> f.old_hidden_prompt_func,
     _getchar |-> f.old__getchar_func,
     should_strip_ansi |-> f.old_should_strip_ansi,
     FORCED_WIDTH |-> f.old_forced_width]

\* the sessions left open once the innermost one of stk is closed; the
\* enclosing session notes that a session was opened and closed inside it
Pop(stk) ==
    LET n == Len(stk)
        rest == SubSeq(stk, 1, n - 1)
    IN IF n > 1 THEN [rest EXCEPT ![n - 1].inner = TRUE] ELSE rest

\* the finally clause of isolation() (lines 275-291), on the innermost session
IsolationFinally(stk) ==
    /\ stack' = Pop(stk)
    /\ environ' = RestoreEnv(environ, stk[Len(stk)].old_env)
    /\ g' = RestoreGlobals(stk[Len(stk)])

\* a `with runner.isolation(...)` block of the caller's own ends: normally
\* (return), or by an exception (SystemExit or another) that leaves the block
IsolationExit(term) ==
    /\ stack # <<>>
    /\ IsolationFinally(stack)
    /\ last' = Event("isolation", term, FALSE, <<>>,
                     IF term.kind = "return" THEN <<>> ELSE <<term.exc>>,
                     <<Closed(Top)>>)
    /\ UNCHANGED <<runner, fs>>

\* a value of an environment mapping that is no str: os.environ[key] = value
\* raises TypeError for it
NonStr == "<int>"

\* the order in which env.items() gives the keys
KeyOrder == <<"K1", "K2">>

\* the keys the loop of lines 265-273 has reached when it stops: all of them,
\* or those up to the first one whose value os.environ refuses
Reached(env) ==
    LET bad == {i \in 1..Len(KeyOrder) :
                   KeyOrder[i] \in DOMAIN env /\ env[KeyOrder[i]] = NonStr}
    IN IF bad = {} THEN DOMAIN env
       ELSE {KeyOrder[i] : i \in {n \in 1..Len(KeyOrder) :
                                     \A b \in bad : n <= b}} \cap DOMAIN env

\* the keys the loop has set or deleted when it stops
Applied(env) == {k \in Reached(env) : env[k] # NonStr}

Restrict(env, D) == [k \in D |-> env[k]]

\* isolation() from its first line to the yield (lines 193-274): the
\* exception that ends it early (None when the yield is reached), and the
\* globals and the environment it leaves.  make_input_stream (line 193)
\* fails before anything is changed; an unknown charset fails in the
\* TextIOWrapper of line 206, after line 199 and outside any try; a value
\* os.environ refuses fails inside the try of line 264, whose finally clause
\* runs on what the loop has snapshotted
Setup(sid, input, env) ==
    LET rv == make_input_stream(input, runner.charset)
        e == make_env(runner, env)
        f == NewSession(sid, rv.value, e)
    IN IF rv.raises # None
       THEN [raises |-> rv.raises, f |-> <<>>, g |-> g, environ |-> environ]
       ELSE IF runner.charset \notin Charsets
       THEN [raises |-> "LookupError", f |-> <<>>,
             g |-> [g EXCEPT !.FORCED_WIDTH = ForcedWidth],
             environ |-> environ]
       ELSE IF Reached(e) # Applied(e)
       THEN [raises |-> "TypeError", f |-> <<>>,
             g |-> RestoreGlobals(f),
             environ |-> RestoreEnv(ApplyEnv(environ, Restrict(e, Applied(e))),
                                    SnapshotEnv(environ, Restrict(e, Reached(e))))]
       ELSE [raises |-> None, f |-> <<f>>,
             g |-> InstalledGlobals(sid, runner.mix_stderr),
             environ |-> ApplyEnv(environ, e)]

\* `with self.isolation(input, env, color)` up to the yield; invoke() enters
\* its session the same way (line 338)
IsolationEnter(input, env) ==
    /\ Len(stack) < MaxDepth
    /\ LET s == Setup(Len(stack) + 1, input, env)
       IN /\ stack' = stack \o s.f
          /\ g' = s.g
          /\ environ' = s.environ
          /\ last' = EnterEvent(input, env,
                                IF s.raises = None THEN <<>>
                                ELSE <<ExceptionOf(s.raises)>>)
    /\ UNCHANGED <<runner, fs>>

(* ------------------------------- invoke --------------------------------- *)
\* Result.__init__
Result(stdout_bytes, stderr_bytes, return_value, exit_code, exception, exc_info) ==
    [stdout_bytes |-> stdout_bytes,
     stderr_bytes |-> stderr_bytes,
     return_value |-> return_value,
     exit_code |-> exit_code,
     exception |-> exception,
     exc_info |-> exc_info]

\* bytes.decode(charset, "replace") of one-byte characters: a byte that is no
\* character becomes U+FFFD
Decode(bytes) ==
    [i \in 1..Len(bytes) |->
        IF \E c \in DOMAIN Ord : Ord[c] = bytes[i]
        THEN CHOOSE c \in DOMAIN Ord : Ord[c] = bytes[i]
        ELSE "U+FFFD"]

RECURSIVE ReplaceCRLF(_)
\* str.replace("\r\n", "\n")
ReplaceCRLF(text) ==
    IF Len(text) < 2 THEN text
    ELSE IF text[1] = "\r" /\ text[2] = "\n"
         THEN <<"\n">> \o ReplaceCRLF(SubSeq(text, 3, Len(text)))
         ELSE <<text[1]>> \o ReplaceCRLF(Tail(text))

\* Result.stdout (lines 111-116)
Result_stdout(self) == Returned(ReplaceCRLF(Decode(self.stdout_bytes)))

\* Result.output (lines 106-109)
Result_output(self) == Result_stdout(self)

\* Result.stderr that gives the empty string when stderr was not captured
Result_stderr_Silent(self) ==
    IF self.stderr_bytes = NoneBytes
    THEN Returned(<<>>)
    ELSE Returned(ReplaceCRLF(Decode(self.stderr_bytes)))

\* Result.stderr (lines 118-125)
Result_stderr(self) ==
    IF self.stderr_bytes = NoneBytes
    THEN Raised("ValueError")
    ELSE Returned(ReplaceCRLF(Decode(self.stderr_bytes)))

\* exit_code after lines 355-357: e.code, None replaced by 0
CodeOf(e) == IF e.code = NonePayload THEN Payload("int", 0, <<>>) ELSE e.code

\* ReturnValue that never takes what cli.main returned
ReturnValue_None(term) == None

\* return_value: None (line 339) unless cli.main returned (line 352)
ReturnValue(term) == IF term.kind = "return" THEN term.value ELSE None

\* RecordedException without line 370
RecordedException_DropsFailure(term) ==
    CASE term.kind = "SystemExit" ->
            IF NotEqualZero(CodeOf(term.exc)) THEN term.exc ELSE NoException
      [] OTHER -> NoException

\* exception: None (line 340), the SystemExit when its code != 0 (lines
\* 359-360), the failure when it is caught (line 370)
RecordedException(term) ==
    CASE term.kind = "SystemExit" ->
            IF NotEqualZero(CodeOf(term.exc)) THEN term.exc ELSE NoException
      [] term.kind = "Exception" -> term.exc
      [] OTHER -> NoException

\* ExitCode that reports every non-zero integer code as 1
ExitCode_One(term) ==
    CASE term.kind = "SystemExit" ->
            IF IsInt(CodeOf(term.exc)) /\ CodeOf(term.exc).n = 0 THEN 0 ELSE 1
      [] term.kind = "Exception" -> 1
      [] OTHER -> 0

\* exit_code: 0 (line 341), the integer code or 1 for any other payload
\* (lines 355-365), 1 for a caught failure (line 371)
ExitCode(term) ==
    CASE term.kind = "SystemExit" ->
            IF IsInt(CodeOf(term.exc)) THEN CodeOf(term.exc).n ELSE 1
      [] term.kind = "Exception" -> 1
      [] OTHER -> 0

\* ExitText without line 364
ExitText_NoNewline(term) ==
    IF term.kind = "SystemExit" /\ ~IsInt(CodeOf(term.exc))
    THEN <<Str(CodeOf(term.exc))>>
    ELSE <<>>

\* what lines 362-364 write to sys.stdout: str(exit_code), then "\n"
ExitText(term) ==
    IF term.kind = "SystemExit" /\ ~IsInt(CodeOf(term.exc))
    THEN <<Str(CodeOf(term.exc)), <<"\n">>>>
    ELSE <<>>

\* exc_info = sys.exc_info() (lines 354, 372)
ExcInfo(term) == IF term.kind = "return" THEN <<>> ELSE <<term.exc>>

\* Propagates with catch_exceptions ignored: every failure is caught
Propagates_Never(term, catch_exceptions) == FALSE

\* lines 367-369: a failure that is no SystemExit is re-raised
Propagates(term, catch_exceptions) ==
    term.kind = "Exception" /\ ~catch_exceptions

RECURSIVE WriteAll(_, _, _)
\* sys.stdout.write(t) for each text t of texts, in order
WriteAll(stk, h, texts) ==
    IF texts = <<>> THEN stk
    ELSE WriteAll(WrapperWrite(stk, h, Encode(Head(texts))), h, Tail(texts))

\* entry points: name is the `name` attribute when there is one
Clis == {[name |-> n] : n \in {<<>>, <<None>>, <<"">>, <<"cli">>}}

\* the **extra keyword arguments of invoke()
Extras ==
    {[k \in {} |-> ""], [prog_name |-> "prog"], [obj |-> "x"],
     [prog_name |-> "prog", obj |-> "x"]}

\* get_default_prog_name (lines 157-162): `cli.name or "root"`
get_default_prog_name(cli) ==
    IF cli.name = <<>> THEN Raised("AttributeError")
    ELSE Returned(IF cli.name[1] \in {None, ""} THEN "root" ELSE cli.name[1])

\* lines 346-349: extra.pop("prog_name"), or the default name
ProgName(cli, extra) ==
    IF "prog_name" \in DOMAIN extra THEN Returned(extra["prog_name"])
    ELSE get_default_prog_name(cli)

\* extra as line 346 leaves it
ExtraAfterPop(extra) == [k \in DOMAIN extra \ {"prog_name"} |-> extra[k]]

\* an attempt to start an invocation: the arguments, the globals and the
\* environment the caller had, and the call of cli.main when it is reached
BeginEvent(cli, extra, input, env, raised, main) ==
    [Event("begin", NoTermination, TRUE, <<>>, raised, <<>>) EXCEPT
        !.io = [fn |-> "begin", input |-> input, env |-> env,
                pre |-> [g |-> g, environ |-> environ],
                cli |-> cli, extra |-> extra, main |-> main]]

\* invoke() up to the call of cli.main (lines 337-352).  An exception of the
\* setup of the session leaves as Setup says; one of lines 346-349 leaves
\* through the finally clause of isolation(), which undoes the entry
InvokeBegin(cli, extra, input, env) ==
    /\ Len(stack) < MaxDepth
    /\ LET s == Setup(Len(stack) + 1, input, env)
           prog_name == ProgName(cli, extra)
       IN IF s.raises # None
          THEN /\ last' = BeginEvent(cli, extra, input, env,
                                     <<ExceptionOf(s.raises)>>, <<>>)
               /\ g' = s.g
               /\ environ' = s.environ
               /\ UNCHANGED stack
          ELSE IF prog_name.raises # None
          THEN /\ last' = BeginEvent(cli, extra, input, env,
                                     <<ExceptionOf(prog_name.raises)>>, <<>>)
               /\ UNCHANGED <<stack, g, environ>>
          ELSE /\ stack' = stack \o s.f
               /\ g' = s.g
               /\ environ' = s.environ
               /\ last' = BeginEvent(cli, extra, input, env, <<>>,
                                     <<[prog_name |-> prog_name.value,
                                        extra |-> ExtraAfterPop(extra)]>>)
    /\ UNCHANGED <<runner, fs>>

\* the streams once the except clauses (lines 353-372) and the finally clause
\* (line 374: sys.stdout.flush()) have run
StreamsAtEnd(stk, sys_stdout, term) ==
    WrapperFlush(WriteAll(stk, sys_stdout, ExitText(term)), sys_stdout)

\* stderr of lines 376-379
StderrBytes(f) == IF runner.mix_stderr THEN NoneBytes ELSE f.bytes_error

\* invoke() from the moment cli.main (line 352) terminates with term: the
\* except and finally clauses, the exit of the isolation session, and the
\* Result (lines 381-389) unless the failure propagates.  catch_exceptions is
\* read by line 368 alone, and is drawn here
InvokeEnd(term, catch_exceptions) ==
    /\ stack # <<>>
    /\ LET stk == StreamsAtEnd(stack, g.stdout, term)
           f == stk[Len(stk)]
       IN /\ IsolationFinally(stk)
          /\ last' =
               IF Propagates(term, catch_exceptions)
               THEN Event("invoke", term, catch_exceptions, <<>>,
                          <<term.exc>>, <<Closed(f)>>)
               ELSE Event("invoke", term, catch_exceptions,
                          <<Result(f.bytes_output, StderrBytes(f),
                                   ReturnValue(term), ExitCode(term),
                                   RecordedException(term), ExcInfo(term))>>,
                          <<>>, <<Closed(f)>>)
    /\ UNCHANGED <<runner, fs>>

(* ------------------------- isolated_filesystem -------------------------- *)
\* directories are numbered: 0 is the working directory of the process at
\* the start, RootOfTemp the system's temporary location, 1, 2, ... are the
\* directories tempfile.mkdtemp makes, in order
StartDir == 0
RootOfTemp == 0 - 1
\* mkdtemp calls in one behaviour
MaxDirs == 3

NoFsEvent ==
    [op |-> "none", term |-> NoTermination, raised |-> <<>>, entry_cwd |-> StartDir,
     t |-> StartDir, temp_dir |-> <<>>, cwd_at_rmtree |-> StartDir,
     rmtree_failed |-> FALSE, nested |-> FALSE]

InitialFs ==
    [cwd |-> StartDir, dirs |-> {}, open |-> <<>>, made |-> 0, ev |-> NoFsEvent]

\* os.path.exists(d) for the directories of the model
Exists(dirs, d) == d \in {StartDir, RootOfTemp} \/ \E x \in dirs : x.id = d

RECURSIVE Under(_, _, _)
\* whether directory d lies in the tree rooted at t
Under(dirs, d, t) ==
    \/ d = t
    \/ \E x \in dirs : x.id = d /\ x.parent # d /\ Under(dirs \ {x}, x.parent, t)

\* shutil.rmtree(t) when it succeeds
Rmtree(dirs, t) == {x \in dirs : ~Under(dirs, x.id, t)}

\* tempfile.mkdtemp(dir=temp_dir) (line 406): temp_dir is <<>> for None
Mkdtemp(made, temp_dir) ==
    [id |-> made + 1,
     parent |-> IF temp_dir = <<>> THEN RootOfTemp ELSE temp_dir[1]]

\* lines 405-410: the block is entered
WorkspaceEnter(temp_dir) ==
    /\ Len(fs.open) < MaxDepth
    /\ fs.made < MaxDirs
    /\ temp_dir # <<>> => Exists(fs.dirs, temp_dir[1])
    /\ LET d == Mkdtemp(fs.made, temp_dir)
       IN fs' = [fs EXCEPT
                    !.dirs = @ \cup {d},
                    !.made = @ + 1,
                    !.cwd = d.id,
                    !.open = Append(@, [cwd |-> fs.cwd, t |-> d.id,
                                        temp_dir |-> temp_dir,
                                        nested |-> FALSE]),
                    !.ev = NoFsEvent]
    /\ UNCHANGED <<runner, g, environ, stack, last>>

\* the body of the block runs os.chdir(d)
BodyChdir(d) ==
    /\ fs.open # <<>>
    /\ Exists(fs.dirs, d)
    /\ d # fs.cwd
    /\ fs' = [fs EXCEPT !.cwd = d, !.ev = NoFsEvent]
    /\ UNCHANGED <<runner, g, environ, stack, last>>

\* line 414 with the test dropped: the directory is always removed
RemovesOnExit_Always(w) == TRUE

\* line 414: `if temp_dir is None`
RemovesOnExit(w) == w.temp_dir = <<>>

\* what leaves the block when an OSError of rmtree is not caught
LeavesBlock_Unswallowed(term, rmtree_failed) ==
    IF rmtree_failed THEN <<[ty |-> "OSError", code |-> NonePayload]>>
    ELSE IF term.kind = "return" THEN <<>> ELSE <<term.exc>>

\* what leaves the block after the finally clause: the exception of the body,
\* if any; the OSError of rmtree is caught (lines 417-418)
LeavesBlock(term, rmtree_failed) ==
    IF term.kind = "return" THEN <<>> ELSE <<term.exc>>

\* the working directory while rmtree runs: line 412 has restored it
CwdAtRmtree(w, cwd) == w.cwd

\* lines 411-418: the block is left, normally or by an exception; rmtree,
\* when it is called, succeeds or raises OSError
WorkspaceExit(term, rmtree_fails) ==
    /\ fs.open # <<>>
    /\ LET n == Len(fs.open)
           w == fs.open[n]
           rest == SubSeq(fs.open, 1, n - 1)
       IN /\ rmtree_fails => RemovesOnExit(w)
          /\ fs' = [fs EXCEPT
                       !.cwd = w.cwd,
                       !.dirs = IF RemovesOnExit(w) /\ ~rmtree_fails
                                THEN Rmtree(@, w.t) ELSE @,
                       !.open = IF n > 1
                                THEN [rest EXCEPT ![n - 1].nested = TRUE]
                                ELSE rest,
                       !.ev = [op |-> "exit", term |-> term,
                               raised |-> LeavesBlock(term, rmtree_fails),
                               entry_cwd |-> w.cwd, t |-> w.t,
                               temp_dir |-> w.temp_dir,
                               cwd_at_rmtree |-> CwdAtRmtree(w, fs.cwd),
                               rmtree_failed |-> rmtree_fails,
                               nested |-> w.nested]]
    /\ UNCHANGED <<runner, g, environ, stack, last>>

(* --------------------------- specifications ---------------------------- *)
\* os.environ of the process before any session: K1 is set, K2 is not
AmbientEnviron == [k \in Keys |-> IF k = "K1" THEN "o" ELSE None]

\* no overrides: CliRunner(env=None), invoke(env=None)
NoOverrides == [k \in {} |-> None]

\* a runner without environment overrides
Init ==
    /\ runner \in {CliRunner("utf-8", NoOverrides, FALSE, mix) : mix \in BOOLEAN}
    /\ g = OriginalGlobals
    /\ environ = AmbientEnviron
    /\ stack = <<>>
    /\ last = BodyEvent("init")
    /\ fs = InitialFs

\* sessions and invocations that write to the simulated streams
Next ==
    \/ IsolationEnter(NoInput, NoOverrides)
    \/ WriteStdout
    \/ WriteStderr
    \/ FlushStdout
    \/ FlushStderr
    \/ \E term \in Terminations : IsolationExit(term)
    \/ \E term \in Terminations, c \in BOOLEAN : InvokeEnd(term, c)

Spec == Init /\ [][Next]_vars

\* a runner with any overrides of K1, with stderr tracked separately
InitEnv ==
    /\ runner \in {CliRunner("utf-8", env, FALSE, FALSE) :
                      env \in UNION {[D -> RunnerEnvValues \cup {None}] :
                                        D \in SUBSET {"K1"}}}
    /\ g = OriginalGlobals
    /\ environ = AmbientEnviron
    /\ stack = <<>>
    /\ last = BodyEvent("init")
    /\ fs = InitialFs

\* sessions and invocations that override the environment
NextEnv ==
    \/ \E env \in EnvMappings(CallEnvValues) : IsolationEnter(NoInput, env)
    \/ \E term \in Terminations : IsolationExit(term)
    \/ \E term \in Terminations, c \in BOOLEAN : InvokeEnd(term, c)

SpecEnv == InitEnv /\ [][NextEnv]_vars

\* isolated_filesystem blocks, nested, with and without a parent directory
NextFs ==
    \/ \E temp_dir \in {<<>>} \cup {<<d>> : d \in 0..MaxDirs} :
          WorkspaceEnter(temp_dir)
    \/ \E d \in 0..MaxDirs : BodyChdir(d)
    \/ \E term \in Terminations, f \in BOOLEAN : WorkspaceExit(term, f)

SpecFs == Init /\ [][NextFs]_vars

\* what the callers of the model pass as input: nothing, text of two lines
\* (the last one unterminated), text ending in "\r\n", text outside ASCII,
\* bytes, a stream without binary reader, and a stream with one
Inputs ==
    {NoInput,
     StrInput(<<"a", "\n", "b">>),
     StrInput(<<"a", "\r", "\n">>),
     StrInput(<<EAcute, "\n">>),
     BytesInput(Encode(<<"b", "\n", "a", "\n">>)),
     StreamInput(NoneBytes),
     StreamInput(Encode(<<"b", "\n">>))}

Prompts == {None, <<"P">>}

\* a runner of either charset
InitBegin ==
    /\ runner \in {CliRunner(charset, NoOverrides, FALSE, TRUE) :
                      charset \in Charsets}
    /\ g = OriginalGlobals
    /\ environ = AmbientEnviron
    /\ stack = <<>>
    /\ last = BodyEvent("init")
    /\ fs = InitialFs

\* sessions and invocations begun with any input and any entry point
NextBegin ==
    \/ \E input \in Inputs : IsolationEnter(input, NoOverrides)
    \/ \E cli \in Clis, extra \in Extras, input \in Inputs :
          InvokeBegin(cli, extra, input, NoOverrides)
    \/ IsolationExit(Termination("return", None, NoException))
    \/ \E c \in BOOLEAN :
          InvokeEnd(Termination("Exception", None,
                                ExceptionOf("RuntimeError")), c)

SpecBegin == InitBegin /\ [][NextBegin]_vars

\* sessions open at once that read their input
MaxReaders == 1

\* a runner of either charset, echoing its input or not
InitIn ==
    /\ runner \in {CliRunner(charset, NoOverrides, echo, TRUE) :
                      charset \in Charsets, echo \in BOOLEAN}
    /\ g = OriginalGlobals
    /\ environ = AmbientEnviron
    /\ stack = <<>>
    /\ last = BodyEvent("init")
    /\ fs = InitialFs

\* sessions that read the simulated stdin
NextIn ==
    \/ \E input \in Inputs :
          /\ Len(stack) < MaxReaders
          /\ IsolationEnter(input, NoOverrides)
    \/ \E prompt \in Prompts : VisibleInput(prompt)
    \/ \E prompt \in Prompts : HiddenInput(prompt)
    \/ StdinReadline
    \/ \E method \in EchoingMethods : BufferRead(method)
    \/ IsolationExit(Termination("return", None, NoException))
    \/ \E c \in BOOLEAN :
          InvokeEnd(Termination("Exception", None,
                                ExceptionOf("RuntimeError")), c)

SpecIn == InitIn /\ [][NextIn]_vars

\* a charset the codecs registry does not know
UnknownCharset == "no-such-charset"

\* environment mappings of a call: none, one os.environ takes, one it
\* refuses at the first key, and one it refuses after it has set a key
SetupEnvs ==
    {NoOverrides,
     [k \in {"K2"} |-> "c"],
     [k \in Keys |-> IF k = "K1" THEN NonStr ELSE "c"],
     [k \in Keys |-> IF k = "K1" THEN "c" ELSE NonStr]}

\* a runner of a known or an unknown charset
InitSetup ==
    /\ runner \in {CliRunner(charset, NoOverrides, FALSE, TRUE) :
                      charset \in {"utf-8", UnknownCharset}}
    /\ g = OriginalGlobals
    /\ environ = AmbientEnviron
    /\ stack = <<>>
    /\ last = BodyEvent("init")
    /\ fs = InitialFs

\* sessions and invocations whose setup may fail: on the input, on the
\* charset, or on a value of the environment mapping
NextSetup ==
    \/ \E input \in {NoInput, StrInput(<<"a", "\n">>), StreamInput(NoneBytes)},
          env \in SetupEnvs :
          IsolationEnter(input, env)
    \/ \E env \in SetupEnvs :
          InvokeBegin([name |-> <<"cli">>], [k \in {} |-> ""], NoInput, env)
    \/ IsolationExit(Termination("return", None, NoException))
    \/ \E c \in BOOLEAN :
          InvokeEnd(Termination("Exception", None,
                                ExceptionOf("RuntimeError")), c)

SpecSetup == InitSetup /\ [][NextSetup]_vars

\* a runner that echoes its input or not
InitOrder ==
    /\ runner \in {CliRunner("utf-8", NoOverrides, echo, TRUE) : echo \in BOOLEAN}
    /\ g = OriginalGlobals
    /\ environ = AmbientEnviron
    /\ stack = <<>>
    /\ last = BodyEvent("init")
    /\ fs = InitialFs

\* invocations that write to the simulated stdout and read the simulated
\* stdin, in any order
NextOrder ==
    \/ \E input \in {StrInput(<<"a", "\n", "b">>), BytesInput(Encode(<<"b", "\n">>))} :
          /\ Len(stack) < MaxReaders
          /\ IsolationEnter(input, NoOverrides)
    \/ WriteStdout
    \/ FlushStdout
    \/ StdinReadline
    \/ \E method \in EchoingMethods : BufferRead(method)
    \/ \E v \in {None, "rv"} : InvokeEnd(Termination("return", v, NoException), TRUE)

SpecOrder == InitOrder /\ [][NextOrder]_vars

(* ------------------------------ properties ----------------------------- *)
\* the session the last step closed
ClosedSession == last.closed[1]
\* the Result the last step returned
LastResult == last.result[1]

IsPrefix(a, b) == Len(a) <= Len(b) /\ SubSeq(b, 1, Len(a)) = a

\* C1: after an isolation session is left, by normal completion or by an
\* exception, the stdio handles, the four hooks and the forced width hold the
\* values they held just before the session was entered
C1_GlobalsRestored ==
    last.closed # <<>> => g = ClosedSession.pre.g

\* a session opened inside another one has been left by an exception
C1_Witness ==
    /\ last.op = "isolation"
    /\ last.raised # <<>>
    /\ g = ClosedSession.pre.g
    /\ g # OriginalGlobals

\* C2: after an invocation, whether it returned a Result or raised, the
\* environment is what it was before the invocation: every overridden key
\* that existed has its old value, every one that did not is absent again
C2_EnvironRestored ==
    last.op = "invoke" => environ = ClosedSession.pre.environ

\* an invocation that changed the environment has raised
C2_Witness ==
    /\ last.op = "invoke"
    /\ last.raised # <<>>
    /\ ClosedSession.overrode
    /\ environ = ClosedSession.pre.environ

\* C3: sys.exit(n) with an integer n gives exit code n, no recorded exception
\* for n = 0 and the SystemExit itself for n # 0; sys.exit(None) gives exit
\* code 0 and no recorded exception
C3_IntegerExit ==
    (/\ last.op = "invoke"
     /\ last.term.kind = "SystemExit"
     /\ last.term.exc.code.ty \in {"int", "NoneType"})
    => /\ last.result # <<>>
       /\ LET n == IF last.term.exc.code.ty = "int"
                   THEN last.term.exc.code.n ELSE 0
          IN /\ LastResult.exit_code = n
             /\ n = 0 => LastResult.exception = NoException
             /\ n # 0 => LastResult.exception = last.term.exc

\* sys.exit(2) has given exit code 2 and the SystemExit as the exception
C3_Witness ==
    /\ last.op = "invoke"
    /\ last.term.exc = SystemExitOf(Payload("int", 2, <<>>))
    /\ last.result # <<>>
    /\ LastResult.exit_code = 2
    /\ LastResult.exception = last.term.exc

\* C4: whenever the entry point ends by SystemExit, whatever its payload, the
\* SystemExit is the recorded exception exactly when the Result's exit code
\* is not zero
C4_ExceptionIffNonZero ==
    (last.op = "invoke" /\ last.term.kind = "SystemExit")
    => /\ last.result # <<>>
       /\ LastResult.exception \in {NoException, last.term.exc}
       /\ (LastResult.exception = last.term.exc) <=> (LastResult.exit_code # 0)

\* C5: sys.exit(p) with p neither an integer nor None gives exit code 1, and
\* the captured output is what the entry point wrote followed by str(p) and
\* a newline
C5_PayloadText ==
    (/\ last.op = "invoke"
     /\ last.term.kind = "SystemExit"
     /\ last.term.exc.code.ty \notin {"int", "NoneType"})
    => /\ last.result # <<>>
       /\ LastResult.exit_code = 1
       /\ LastResult.stdout_bytes =
             (IF runner.mix_stderr THEN ClosedSession.wrote_all
              ELSE ClosedSession.wrote_out)
             \o Encode(Str(last.term.exc.code)) \o <<10>>

\* the entry point wrote "o" and called sys.exit("m"): the output is b"om\n"
C5_Witness ==
    /\ last.op = "invoke"
    /\ last.term.exc = SystemExitOf(Payload("str", 0, <<"m">>))
    /\ last.result # <<>>
    /\ LastResult.stdout_bytes = <<111, 109, 10>>
    /\ LastResult.exit_code = 1

\* C6: an entry point that returns gives exit code 0, no recorded exception
\* and its return value as the Result's return value
C6_NormalReturn ==
    (last.op = "invoke" /\ last.term.kind = "return")
    => /\ last.result # <<>>
       /\ LastResult.exit_code = 0
       /\ LastResult.exception = NoException
       /\ LastResult.return_value = last.term.value

\* the entry point has returned "rv"
C6_Witness ==
    /\ last.op = "invoke"
    /\ last.term.kind = "return"
    /\ last.result # <<>>
    /\ LastResult.return_value = "rv"

\* C7: with catch_exceptions on, a failure that is no SystemExit is not
\* propagated: invoke returns a Result with exit code 1 and that failure as
\* its exception
C7_FailureCaught ==
    (/\ last.op = "invoke"
     /\ last.term.kind = "Exception"
     /\ last.catch_exceptions)
    => /\ last.raised = <<>>
       /\ last.result # <<>>
       /\ LastResult.exit_code = 1
       /\ LastResult.exception = last.term.exc

\* a failure has been caught into a Result
C7_Witness ==
    /\ last.op = "invoke"
    /\ last.term.kind = "Exception"
    /\ last.catch_exceptions
    /\ last.result # <<>>
    /\ LastResult.exception \in Failures

\* C8: with catch_exceptions off, a failure that is no SystemExit leaves
\* invoke as an exception, without a Result, and the session is closed by
\* then: the stdio handles, the hooks, the forced width and the environment
\* hold their values from before the invocation
C8_FailurePropagates ==
    (/\ last.op = "invoke"
     /\ last.term.kind = "Exception"
     /\ ~last.catch_exceptions)
    => /\ last.result = <<>>
       /\ last.raised = <<last.term.exc>>
       /\ g = ClosedSession.pre.g
       /\ environ = ClosedSession.pre.environ

\* a failure has left an invocation that had overridden the environment
C8_Witness ==
    /\ last.op = "invoke"
    /\ last.term.kind = "Exception"
    /\ ~last.catch_exceptions
    /\ last.raised \in {<<e>> : e \in Failures}
    /\ ClosedSession.overrode
    /\ stack = <<>>
    /\ g = OriginalGlobals

\* C9: however the entry point ended, the Result holds every byte written to
\* the simulated stdout and, when stderr is tracked separately, every byte
\* written to the simulated stderr, flushed by the entry point or not
C9_EverythingCaptured ==
    (last.op = "invoke" /\ last.result # <<>>)
    => IF runner.mix_stderr
       THEN IsPrefix(ClosedSession.wrote_all, LastResult.stdout_bytes)
       ELSE /\ IsPrefix(ClosedSession.wrote_out, LastResult.stdout_bytes)
            /\ LastResult.stderr_bytes = ClosedSession.wrote_err

\* C10: when a session opened inside another one is closed, the globals and
\* the environment are what the enclosing session installed; when the
\* outermost session is closed, they are what the process had before it
C10_NestedRestore ==
    last.closed # <<>>
    => IF stack # <<>>
       THEN g = Top.inst.g /\ environ = Top.inst.environ
       ELSE g = OriginalGlobals /\ environ = AmbientEnviron

\* the outermost session is closed after a session was opened and closed
\* inside it, and it had overridden the environment
C10_Witness ==
    /\ last.closed # <<>>
    /\ stack = <<>>
    /\ ClosedSession.inner
    /\ ClosedSession.overrode
    /\ g = OriginalGlobals
    /\ environ = AmbientEnviron

\* C11: a Result of a runner that merges stderr has None as its stderr bytes
\* and its stderr property raises ValueError; a Result of a runner that
\* tracks stderr has bytes there and its stderr property gives the decoded
\* text; the output and stdout properties give text in both cases
C11_StderrView ==
    (last.op = "invoke" /\ last.result # <<>>)
    => /\ runner.mix_stderr
          => /\ LastResult.stderr_bytes = NoneBytes
             /\ Result_stderr(LastResult) = Raised("ValueError")
       /\ ~runner.mix_stderr
          => /\ LastResult.stderr_bytes # NoneBytes
             /\ \A i \in 1..Len(LastResult.stderr_bytes) :
                   LastResult.stderr_bytes[i] \in 0..255
             /\ Result_stderr(LastResult).raises = None
             /\ Len(Result_stderr(LastResult).value)
                   = Len(LastResult.stderr_bytes)
       /\ Result_stdout(LastResult).raises = None
       /\ Result_output(LastResult) = Result_stdout(LastResult)

\* a runner that merges stderr has returned a Result after the entry point
\* wrote to stderr, and its stderr property raises
C11_Witness ==
    /\ last.op = "invoke"
    /\ last.result # <<>>
    /\ runner.mix_stderr
    /\ ClosedSession.wrote_err # <<>>
    /\ Result_stderr(LastResult).raises = "ValueError"
    /\ Result_output(LastResult).value # <<>>

\* C12 as claimed: on every exit from an isolated_filesystem block the
\* working directory is the one recorded at entry, and the created directory
\* is gone if and only if no parent directory was supplied
C12_DeletedIffNoParent ==
    fs.ev.op = "exit"
    => /\ fs.cwd = fs.ev.entry_cwd
       /\ ~Exists(fs.dirs, fs.ev.t) <=> fs.ev.temp_dir = <<>>

\* C12 as amended: on every exit, normal or by an exception, nested or not,
\* the working directory is the one recorded at entry; a directory made
\* under a supplied parent still exists; a directory made without one is
\* gone unless its deletion failed, and then it still exists
C12_WorkspaceExit ==
    fs.ev.op = "exit"
    => /\ fs.cwd = fs.ev.entry_cwd
       /\ fs.ev.temp_dir # <<>> => Exists(fs.dirs, fs.ev.t)
       /\ fs.ev.temp_dir = <<>>
          => (Exists(fs.dirs, fs.ev.t) <=> fs.ev.rmtree_failed)

\* an outer block without a parent directory, which had a block nested in
\* it, is left by an exception: its directory is gone and the working
\* directory is back
C12_Witness ==
    /\ fs.ev.op = "exit"
    /\ fs.ev.nested
    /\ fs.ev.raised # <<>>
    /\ fs.ev.temp_dir = <<>>
    /\ ~Exists(fs.dirs, fs.ev.t)
    /\ fs.open = <<>>
    /\ fs.cwd = StartDir

\* C20: when rmtree fails at the exit of the block, the failure is swallowed:
\* a block that completed leaves normally, a block that raised lets exactly
\* its exception through, and the working directory was restored before
\* rmtree ran
C20_CleanupFailureSwallowed ==
    (fs.ev.op = "exit" /\ fs.ev.rmtree_failed)
    => /\ fs.ev.raised = (IF fs.ev.term.kind = "return" THEN <<>>
                          ELSE <<fs.ev.term.exc>>)
       /\ fs.ev.cwd_at_rmtree = fs.ev.entry_cwd
       /\ fs.cwd = fs.ev.entry_cwd

\* rmtree has failed at the exit of a block that a failure was leaving: the
\* directory remains and the failure of the body is what leaves the block
C20_Witness ==
    /\ fs.ev.op = "exit"
    /\ fs.ev.rmtree_failed
    /\ fs.ev.term.kind = "Exception"
    /\ fs.ev.raised = <<fs.ev.term.exc>>
    /\ Exists(fs.dirs, fs.ev.t)
    /\ fs.cwd = fs.ev.entry_cwd

\* what has reached a session's output buffer or waits in the wrapper on it
OutputSide(f) == f.bytes_output \o f.stdout_pending

\* what has reached a session's error buffer or waits in the wrapper on it
ErrorSide(f) == f.bytes_error \o f.stderr_pending

\* C16: in a session that merges stderr into stdout, the writes to both
\* streams are in the one output buffer (or pending on it) in the order they
\* were made, and there is no error buffer; in a session that tracks stderr
\* separately, the output side holds exactly the stdout writes and the error
\* side exactly the stderr writes
C16_Routing ==
    \A i \in 1..Len(stack) :
        IF runner.mix_stderr
        THEN /\ OutputSide(stack[i]) = stack[i].wrote_all
             /\ stack[i].stderr_pending = <<>>
             /\ stack[i].bytes_error = NoneBytes
        ELSE /\ OutputSide(stack[i]) = stack[i].wrote_out
             /\ ErrorSide(stack[i]) = stack[i].wrote_err

\* a merging session whose body wrote to stderr and then to stdout, and
\* flushed in between
C16_Witness ==
    /\ stack # <<>>
    /\ runner.mix_stderr
    /\ Top.wrote_all = Encode(<<"e", "o">>)
    /\ Top.bytes_output = Encode(<<"e">>)
    /\ Top.stdout_pending = Encode(<<"o">>)

\* entering a session gives every key of the call's overrides the call's
\* value, every other key of the runner's overrides the runner's value (None:
\* the variable is absent), and leaves every other variable as it was
EnterSetsEffectiveEnv ==
    Len(stack') > Len(stack)
    => \A k \in Keys :
          IF k \in DOMAIN last'.io.env
          THEN environ'[k] = last'.io.env[k]
          ELSE IF k \in DOMAIN runner.env
               THEN environ'[k] = runner.env[k]
               ELSE environ'[k] = environ[k]

\* leaving a session leaves every variable outside its mapping as it was
LeaveKeepsOtherKeys ==
    Len(stack') < Len(stack)
    => \A k \in Keys \ DOMAIN Top.env : environ'[k] = environ[k]

\* C19: while a session is open the environment has, for every key of its
\* effective mapping (the runner's overrides updated by the call's, the call
\* winning), the value given or no variable when the value is None; entering
\* and leaving a session change no variable outside the effective mapping
C19_EffectiveEnv ==
    /\ [](stack # <<>> => \A k \in DOMAIN Top.env : environ[k] = Top.env[k])
    /\ [][EnterSetsEffectiveEnv]_vars
    /\ [][LeaveKeepsOtherKeys]_vars

\* a session entered with the call deleting K1, which the runner sets, and
\* K2 in neither mapping
C19_Witness ==
    /\ stack # <<>>
    /\ last.op = "enter"
    /\ DOMAIN runner.env = {"K1"}
    /\ runner.env["K1"] = "r"
    /\ DOMAIN last.io.env = {"K1"}
    /\ last.io.env["K1"] = None
    /\ environ["K1"] = None
    /\ environ["K2"] = last.io.pre.environ["K2"]

\* the name an entry point declares, when it declares one
DeclaredName(cli) ==
    IF cli.name # <<>> /\ cli.name[1] \notin {None, ""} THEN <<cli.name[1]>>
    ELSE <<>>

\* C14: once the session of an invocation is set up, cli.main is called with
\* the prog_name override of the extra parameters when there is one (and the
\* override is not among the extra parameters forwarded), otherwise with the
\* name the entry point declares, otherwise (name attribute absent, None or
\* empty) with "root"
C14_ProgName ==
    (last.op = "begin" /\ last.raised # <<ExceptionOf("TypeError")>>)
    => /\ last.io.main # <<>>
       /\ "prog_name" \notin DOMAIN last.io.main[1].extra
       /\ last.io.main[1].prog_name =
             IF "prog_name" \in DOMAIN last.io.extra
             THEN last.io.extra["prog_name"]
             ELSE IF DeclaredName(last.io.cli) # <<>>
                  THEN DeclaredName(last.io.cli)[1]
                  ELSE "root"

\* C15: entering a session, directly or through invoke, with a stream that
\* has no binary reader raises TypeError to the caller, returns no Result and
\* leaves the globals and the environment as they were; with no input the
\* session's input is empty, and with text it is the text encoded in the
\* runner's charset
C15_InputStream ==
    last.op \in {"enter", "begin"}
    => LET input == last.io.input
       IN /\ (input.ty = "stream" /\ input.binary_reader = NoneBytes)
             => /\ last.raised = <<ExceptionOf("TypeError")>>
                /\ last.result = <<>>
                /\ g = last.io.pre.g
                /\ environ = last.io.pre.environ
          /\ (input.ty = "NoneType" /\ last.raised = <<>>)
             => Top.input = <<>>
          /\ (input.ty = "str" /\ last.raised = <<>>)
             => /\ Top.input = EncodeWith(runner.charset, input.text)
                /\ input.text = <<EAcute, "\n">>
                   => Top.input = IF runner.charset = "utf-8"
                                  THEN <<195, 169, 10>> ELSE <<233, 10>>

\* inside an open session, an invocation with a stream without binary
\* reader has raised TypeError and the session's globals are still installed
C15_Witness ==
    /\ last.op = "begin"
    /\ last.io.input = StreamInput(NoneBytes)
    /\ last.raised = <<ExceptionOf("TypeError")>>
    /\ Len(stack) = 1
    /\ g = InstalledGlobals(1, runner.mix_stderr)
    /\ runner.charset = "latin-1"
    /\ Top.input = <<233, 10>>

\* the session a read was made in, as the read left it
AfterRead == Top

\* C13: with echo_stdin on, the bytes a read of the simulated stdin hands to
\* its reader (sys.stdin.buffer.read(), .readline(), .readlines(), iteration,
\* or sys.stdin.readline() through the text wrapper) have been appended to
\* the output buffer, as they are and in order, when the read returns; with
\* echo_stdin off a read appends nothing to it
C13_EchoBeforeReturn ==
    (last.op = "read" /\ last.io.fn \in EchoingMethods \cup {"sys.stdin.readline"})
    => AfterRead.bytes_output =
          IF runner.echo_stdin
          THEN last.io.before.bytes_output \o last.io.data
          ELSE last.io.before.bytes_output

\* the text of a session's input not yet returned to a reader
Remaining(f) == f.decoded \o DecodeWith(runner.charset, f.input)

\* v is the first line of rem without its terminator, and rest what follows
OneLine(rem, v, rest) ==
    /\ \A i \in 1..Len(v) : ~IsTerminator(v[i])
    /\ \E t \in {<<>>, <<"\n">>, <<"\r">>, <<"\r", "\n">>} :
          /\ rem = v \o t \o rest
          /\ t = <<>> => rest = <<>>
          /\ t = <<"\r">> => (rest = <<>> \/ rest[1] # "\n")

\* C17: with echo_stdin off, a call of the visible-input hook with prompt P
\* takes exactly the next line of the input, returns it without its line
\* terminator (the empty string at the end of the input), and appends to the
\* captured output exactly P, the returned value and one newline
C17_VisibleInput ==
    (last.op = "read" /\ last.io.fn = "visible_input" /\ ~runner.echo_stdin)
    => /\ OneLine(Remaining(last.io.before), last.io.value, Remaining(AfterRead))
       /\ Remaining(last.io.before) = <<>> => last.io.value = <<>>
       /\ AfterRead.stdout_pending = <<>>
       /\ AfterRead.bytes_output =
             last.io.before.bytes_output \o last.io.before.stdout_pending
             \o EncodeWith(runner.charset,
                           PromptText(last.io.prompt) \o last.io.value \o <<"\n">>)

\* two calls on the input "a\nb": the second, without prompt, has returned
\* the unterminated last line
C17_Witness ==
    /\ last.op = "read"
    /\ last.io.fn = "visible_input"
    /\ ~runner.echo_stdin
    /\ last.io.value = <<"b">>
    /\ Remaining(AfterRead) = <<>>
    /\ AfterRead.bytes_output = Encode(<<"P", "a", "\n", "b", "\n">>)

\* C18: a call of the hidden-input hook with prompt P appends to the captured
\* output exactly P and one newline, whatever the value entered and whether
\* echo_stdin is on or off, and returns the next line of the input without
\* its line terminator
C18_HiddenInput ==
    (last.op = "read" /\ last.io.fn = "hidden_input")
    => /\ OneLine(Remaining(last.io.before), last.io.value, Remaining(AfterRead))
       /\ AfterRead.stdout_pending = <<>>
       /\ AfterRead.bytes_output =
             last.io.before.bytes_output \o last.io.before.stdout_pending
             \o EncodeWith(runner.charset, PromptText(last.io.prompt) \o <<"\n">>)

\* with echo_stdin on, the hook has returned a value and the captured output
\* holds the prompt and a newline alone
C18_Witness ==
    /\ last.op = "read"
    /\ last.io.fn = "hidden_input"
    /\ runner.echo_stdin
    /\ last.io.value = <<"a">>
    /\ AfterRead.bytes_output = Encode(<<"P", "\n">>)

\* C21: when entering a session fails during its setup, the stdio handles,
\* the four hooks, the forced width and every environment variable are, when
\* the error reaches the caller, what they were before the attempt
C21_SetupFailureRestores ==
    (last.op \in {"enter", "begin"} /\ last.raised # <<>>
        /\ last.raised[1].ty # "AttributeError")
    => /\ g = last.io.pre.g
       /\ environ = last.io.pre.environ

\* C22: with echo_stdin on, the output an invocation that returned has
\* captured is what the entry point wrote to the simulated stdout and the
\* input that was echoed, in the order in which the writes and the reads
\* were made
C22_ChronologicalOrder ==
    (last.op = "invoke" /\ last.term.kind = "return" /\ runner.echo_stdin)
    => LastResult.stdout_bytes = ClosedSession.chrono

====
